---------------------------- MODULE Spec2Model ----------------------------
(***************************************************************************)
(* Huffman coding of compression/huffman.py: Node.from_data (the greedy    *)
(* merge over a heapq min-heap), Node.binary / Node.from_binary (the       *)
(* preorder tree serialization), compress and decompress.                  *)
(*                                                                         *)
(* A bit string (bitstring.BitArray / Bits) is a sequence over {0, 1},     *)
(* most significant bit first; bytes are sequences over 0..255.  A tree is *)
(* a nested record: a LeafNode has the fields leaf, symbol, weight, code;  *)
(* an internal Node has leaf, symbol, weight, left, right.                 *)
(***************************************************************************)
EXTENDS Integers, Sequences, FiniteSets, TLC

\* ---- bounds of the model ----
NumSymbols == 4       \* symbols a weights mapping may hold: FirstSymbol..
MaxLen == 6           \* longest data when weights is omitted
MaxWeightedLen == 1   \* longest data when weights is supplied
MaxWeight == 1        \* largest weight of a supplied mapping
MaxRawLen == 1        \* longest arbitrary byte string handed to decompress
MaxMore == 2          \* longest run of arbitrary bits put after a serialized tree
MaxOut == 3           \* symbols the payload loop is followed for on a Leaf root

FirstSymbol == 49     \* ord("1"), the first byte of the tests' b"122333"
None == -1            \* Python's None as a weight (LeafNode's default)

Symbols == FirstSymbol..(FirstSymbol + NumSymbols - 1)
\* the bytes data is made of: those of the tests' b"122333"
DataSymbols == {FirstSymbol, FirstSymbol + 1, FirstSymbol + 2}
Bit == {0, 1}
Byte == 0..255

SeqsUpTo(S, n) == UNION {[1..k -> S] : k \in 0..n}
Mappings == UNION {[S -> 0..MaxWeight] : S \in SUBSET Symbols}
EmptyMap == [s \in {} |-> 0]

VARIABLES
    call,        \* what the caller runs: "compress" (then decompress) or "decompress"
    pc,          \* position in compress / decompress
    data,        \* compress's argument data (bytes)
    wgiven,      \* whether compress's argument weights is not None
    weights,     \* the weights mapping of from_data (once it is known)
    pending,     \* keys of weights.items() not yet pushed
    heap,        \* from_data's heap (a heapq list)
    tree,        \* the tree from_data returned
    output,      \* compress's BitArray output, before the padding
    compressed,  \* the bytes compress returned
    cdata,       \* decompress's argument
    stream,      \* decompress's BitStream (its bits)
    pos,         \* stream.pos
    dtree,       \* the tree from_binary returned
    out,         \* decompress's list out
    result,      \* the bytes decompress returned
    err          \* the exception that left the call, or "" for none

vars == <<call, pc, data, wgiven, weights, pending, heap, tree, output, compressed,
          cdata, stream, pos, dtree, out, result, err>>

\* ---- LeafNode and Node ----

\* LeafNode.__init__ (code=None gives an empty BitArray)
LeafNode(symbol, weight, code) ==
    [leaf |-> TRUE, symbol |-> symbol, weight |-> weight, code |-> code]

\* Node.__init__ taking the weight of the left child alone
Node_left_weight(left, right) ==
    [leaf |-> FALSE, weight |-> left.weight,
     left |-> left, right |-> right, symbol |-> left.symbol]

\* Node.__init__
Node(left, right) ==
    [leaf |-> FALSE,
     weight |-> IF left.weight = None THEN None ELSE left.weight + right.weight,
     left |-> left, right |-> right, symbol |-> left.symbol]

\* Node.__lt__ without the tie-break: equal weights are left unordered.
lt_weight_only(self, other) == self.weight < other.weight

\* Node.__lt__
lt(self, other) ==
    IF self.weight = other.weight
    THEN self.symbol < other.symbol
    ELSE self.weight < other.weight

RECURSIVE add_to_code_left_only(_, _)
\* Node.add_to_code passing the bit to the left child alone
add_to_code_left_only(self, bit) ==
    IF self.leaf
    THEN [self EXCEPT !.code = <<bit>> \o self.code]
    ELSE [self EXCEPT !.left = add_to_code_left_only(self.left, bit)]

RECURSIVE add_to_code_append(_, _)
\* LeafNode.add_to_code appending the bit instead of prepending it
add_to_code_append(self, bit) ==
    IF self.leaf
    THEN [self EXCEPT !.code = self.code \o <<bit>>]
    ELSE [self EXCEPT !.left = add_to_code_append(self.left, bit),
                      !.right = add_to_code_append(self.right, bit)]

RECURSIVE add_to_code(_, _)
\* Node.add_to_code / LeafNode.add_to_code: prepend bit to every leaf's code
add_to_code(self, bit) ==
    IF self.leaf
    THEN [self EXCEPT !.code = <<bit>> \o self.code]
    ELSE [self EXCEPT !.left = add_to_code(self.left, bit),
                      !.right = add_to_code(self.right, bit)]

\* dict.update: the entries of b replace those of a
update(a, b) ==
    [s \in DOMAIN a \cup DOMAIN b |-> IF s \in DOMAIN b THEN b[s] ELSE a[s]]

RECURSIVE codes(_)
\* Node.codes / LeafNode.codes
codes(self) ==
    IF self.leaf
    THEN [s \in {self.symbol} |-> self.code]
    ELSE update(codes(self.left), codes(self.right))

\* the value of tree and dtree before a tree is there
NoTree == LeafNode(0, None, <<>>)

\* ---- heapq ----

RECURSIVE siftdown_loop(_, _, _, _)
siftdown_loop(h, startpos, p, newitem) ==
    IF p > startpos
    THEN LET parentpos == (p - 1) \div 2
             parent == h[parentpos + 1]
         IN  IF lt(newitem, parent)
             THEN siftdown_loop([h EXCEPT ![p + 1] = parent], startpos,
                                parentpos, newitem)
             ELSE [h EXCEPT ![p + 1] = newitem]
    ELSE [h EXCEPT ![p + 1] = newitem]

\* heapq._siftdown (positions are 0-based as in Python; h[p + 1] is heap[p])
_siftdown(h, startpos, p) == siftdown_loop(h, startpos, p, h[p + 1])

RECURSIVE siftup_loop(_, _, _, _)
siftup_loop(h, startpos, p, newitem) ==
    LET endpos == Len(h)
        childpos == 2 * p + 1
        rightpos == childpos + 1
        c == IF rightpos < endpos /\ ~lt(h[childpos + 1], h[rightpos + 1])
             THEN rightpos ELSE childpos
    IN  IF childpos < endpos
        THEN siftup_loop([h EXCEPT ![p + 1] = h[c + 1]], startpos, c, newitem)
        ELSE _siftdown([h EXCEPT ![p + 1] = newitem], startpos, p)

\* heapq._siftup
_siftup(h, p) == siftup_loop(h, p, p, h[p + 1])

\* heapq.heappush: the heap after the push
heappush(h, item) == _siftdown(Append(h, item), 0, Len(h))

\* heapq.heappop: the item returned and the heap left
heappop(h) ==
    LET lastelt == h[Len(h)]
        rest == SubSeq(h, 1, Len(h) - 1)
    IN  IF rest # <<>>
        THEN [item |-> h[1], heap |-> _siftup([rest EXCEPT ![1] = lastelt], 0)]
        ELSE [item |-> lastelt, heap |-> rest]

\* ---- Node.from_data ----

\* collections.Counter(data)
Counter(d) ==
    [s \in {d[i] : i \in DOMAIN d} |-> Cardinality({i \in DOMAIN d : d[i] = s})]

\* from_data, lines 66-69: take the weights, start with an empty heap
FromDataStart ==
    /\ pc = "from_data"
    /\ weights' = IF wgiven THEN weights ELSE Counter(data)
    /\ pending' = DOMAIN weights'
    /\ heap' = <<>>
    /\ pc' = "push"
    /\ UNCHANGED <<call, data, wgiven, tree, output, compressed, cdata, stream, pos,
                   dtree, out, result, err>>

\* from_data, lines 70-71: one iteration of the for loop.  The order of
\* weights.items() is the mapping's, which the caller (or the hash order of an
\* older Python) decides: any key not yet pushed may come next.
Push ==
    /\ pc = "push"
    /\ \E s \in pending :
         /\ heap' = heappush(heap, LeafNode(s, weights[s], <<>>))
         /\ pending' = pending \ {s}
    /\ UNCHANGED <<call, pc, data, wgiven, weights, tree, output, compressed, cdata,
                   stream, pos, dtree, out, result, err>>

\* from_data, lines 73-78: one iteration of the while loop
Merge ==
    /\ pc = "push"
    /\ pending = {}
    /\ Len(heap) > 1
    /\ LET p1 == heappop(heap)
           p2 == heappop(p1.heap)
           first == add_to_code(p1.item, 1)
           second == add_to_code(p2.item, 0)
       IN  heap' = heappush(p2.heap, Node(first, second))
    /\ UNCHANGED <<call, pc, data, wgiven, weights, pending, tree, output,
                   compressed, cdata, stream, pos, dtree, out, result, err>>

\* from_data returning a tree for an empty heap instead of raising
FromDataReturn_no_raise ==
    /\ pc = "push"
    /\ pending = {}
    /\ Len(heap) <= 1
    /\ pc' = "encode"
    /\ tree' = IF heap = <<>> THEN LeafNode(0, 0, <<>>) ELSE heap[1]
    /\ UNCHANGED <<call, data, wgiven, weights, pending, heap, output,
                   compressed, cdata, stream, pos, dtree, out, result, err>>

\* from_data, line 80: return heap[0]; an empty heap raises IndexError
FromDataReturn ==
    /\ pc = "push"
    /\ pending = {}
    /\ Len(heap) <= 1
    /\ IF heap = <<>>
       THEN /\ pc' = "raised"
            /\ err' = "IndexError"
            /\ tree' = tree
       ELSE /\ pc' = "encode"
            /\ err' = err
            /\ tree' = heap[1]
    /\ UNCHANGED <<call, data, wgiven, weights, pending, heap, output,
                   compressed, cdata, stream, pos, dtree, out, result>>

\* ---- bits and bytes ----

\* bitstring.Bits(uint=v, length=8): v as 8 bits, most significant first
uint8(v) == [i \in 1..8 |-> (v \div (2 ^ (8 - i))) % 2]

RECURSIVE uint(_)
\* the unsigned integer a bit string reads as (stream.read("uint:8"))
uint(bits) ==
    IF bits = <<>> THEN 0
    ELSE 2 * uint(SubSeq(bits, 1, Len(bits) - 1)) + bits[Len(bits)]

RECURSIVE tobytes(_)
\* BitArray.tobytes: eight bits a byte, the last byte filled up with zero bits
tobytes(bits) ==
    IF bits = <<>> THEN <<>>
    ELSE IF Len(bits) < 8
         THEN <<uint(bits \o [i \in 1..(8 - Len(bits)) |-> 0])>>
         ELSE <<uint(SubSeq(bits, 1, 8))>> \o tobytes(SubSeq(bits, 9, Len(bits)))

RECURSIVE BitStream(_)
\* bitstring.BitStream(data): the bits of the bytes
BitStream(bytes) ==
    IF bytes = <<>> THEN <<>>
    ELSE uint8(bytes[1]) \o BitStream(Tail(bytes))

RECURSIVE binary(_)
\* Node.binary / LeafNode.binary
binary(self) ==
    IF self.leaf
    THEN <<1>> \o uint8(self.symbol)
    ELSE <<0>> \o binary(self.left) \o binary(self.right)

Failed(p) == [ok |-> FALSE, node |-> NoTree, pos |-> p]

RECURSIVE _from_binary_swapped(_, _, _)
\* Node._from_binary giving the first subtree the bit 0 and the second the bit 1
_from_binary_swapped(s, p, code) ==
    IF p >= Len(s) THEN Failed(p)
    ELSE IF s[p + 1] = 1
    THEN IF p + 9 > Len(s) THEN Failed(p + 1)
         ELSE [ok |-> TRUE,
               node |-> LeafNode(uint(SubSeq(s, p + 2, p + 9)), None, code),
               pos |-> p + 9]
    ELSE LET l == _from_binary_swapped(s, p + 1, code \o <<0>>)
         IN  IF ~l.ok THEN l
             ELSE LET r == _from_binary_swapped(s, l.pos, code \o <<1>>)
                  IN  IF ~r.ok THEN r
                      ELSE [ok |-> TRUE, node |-> Node(l.node, r.node),
                            pos |-> r.pos]

RECURSIVE _from_binary(_, _, _)
\* Node._from_binary: ok is FALSE when a read runs off the end (ReadError),
\* else node is the tree read and pos the position after it
_from_binary(s, p, code) ==
    IF p >= Len(s) THEN Failed(p)
    ELSE IF s[p + 1] = 1
    THEN IF p + 9 > Len(s) THEN Failed(p + 1)
         ELSE [ok |-> TRUE,
               node |-> LeafNode(uint(SubSeq(s, p + 2, p + 9)), None, code),
               pos |-> p + 9]
    ELSE LET l == _from_binary(s, p + 1, code \o <<1>>)
         IN  IF ~l.ok THEN l
             ELSE LET r == _from_binary(s, l.pos, code \o <<0>>)
                  IN  IF ~r.ok THEN r
                      ELSE [ok |-> TRUE, node |-> Node(l.node, r.node),
                            pos |-> r.pos]

\* Node.from_binary on a BitStream at position p
from_binary(s, p) == _from_binary(s, p, <<>>)

RECURSIVE read_leaf_consumes(_, _, _)
\* LeafNode.read reading a bit of its own before it returns the symbol
read_leaf_consumes(self, s, p) ==
    IF p >= Len(s) THEN [ok |-> FALSE, symbol |-> 0, pos |-> p]
    ELSE IF self.leaf THEN [ok |-> TRUE, symbol |-> self.symbol, pos |-> p + 1]
    ELSE IF s[p + 1] = 1 THEN read_leaf_consumes(self.left, s, p + 1)
    ELSE read_leaf_consumes(self.right, s, p + 1)

RECURSIVE read(_, _, _)
\* Node.read / LeafNode.read: ok is FALSE when stream.read("bool") runs off
\* the end, else symbol is the leaf reached and pos the position after it
read(self, s, p) ==
    IF self.leaf THEN [ok |-> TRUE, symbol |-> self.symbol, pos |-> p]
    ELSE IF p >= Len(s) THEN [ok |-> FALSE, symbol |-> 0, pos |-> p]
    ELSE IF s[p + 1] = 1 THEN read(self.left, s, p + 1)
    ELSE read(self.right, s, p + 1)

\* ---- compress ----

RECURSIVE encode(_, _)
\* compress, lines 119-120: the codes of the bytes of d, in order
encode(table, d) ==
    IF d = <<>> THEN <<>> ELSE table[d[1]] \o encode(table, Tail(d))

\* pad_bits without the full byte: 8 - (n % 8) taken modulo 8
pad_bits_mod8(n) == (8 - (n % 8)) % 8

\* compress, lines 124-126
pad_bits(n) == IF 8 - (n % 8) = 0 THEN 8 ELSE 8 - (n % 8)

\* compress, lines 128-131
padding(n) == [i \in 1..(pad_bits(n) - 1) |-> 0] \o <<1>>

\* compress, lines 116-134, after from_data returned the tree: a byte of data
\* without a code raises KeyError, else the padded bits are returned as bytes
Compress ==
    /\ pc = "encode"
    /\ LET table == codes(tree)
       IN  IF \E i \in DOMAIN data : data[i] \notin DOMAIN table
           THEN /\ pc' = "raised"
                /\ err' = "KeyError"
                /\ UNCHANGED <<output, compressed>>
           ELSE /\ output' = binary(tree) \o encode(table, data)
                /\ compressed' = tobytes(padding(Len(output')) \o output')
                /\ pc' = "compressed"
                /\ err' = err
    /\ UNCHANGED <<call, data, wgiven, weights, pending, heap, tree, cdata,
                   stream, pos, dtree, out, result>>

\* ---- decompress ----

\* The caller hands compress's bytes, or the first n of them, to decompress.
Transmit ==
    /\ pc = "compressed"
    /\ \E n \in 0..Len(compressed) : cdata' = SubSeq(compressed, 1, n)
    /\ pc' = "decompress"
    /\ UNCHANGED <<call, data, wgiven, weights, pending, heap, tree, output,
                   compressed, stream, pos, dtree, out, result, err>>

\* the number of bits the padding loop reads from s: up to the first 1 bit,
\* or Len(s) + 1 when there is none (the read after the last bit raises)
RECURSIVE skip(_, _)
skip(s, p) ==
    IF p >= Len(s) THEN Len(s) + 1
    ELSE IF s[p + 1] = 1 THEN p + 1
    ELSE skip(s, p + 1)

\* decompress, lines 143-147: open the stream and read the padding
SkipPadding ==
    /\ pc = "decompress"
    /\ stream' = BitStream(cdata)
    /\ IF skip(stream', 0) > Len(stream')
       THEN /\ pc' = "raised"
            /\ err' = "ReadError"
            /\ pos' = Len(stream')
       ELSE /\ pc' = "tree"
            /\ err' = err
            /\ pos' = skip(stream', 0)
    /\ UNCHANGED <<call, data, wgiven, weights, pending, heap, tree, output,
                   compressed, cdata, dtree, out, result>>

\* decompress with from_binary inside the try block: a ReadError in the tree
\* ends the call with what out holds
FromBinary_caught ==
    /\ pc = "tree"
    /\ LET r == from_binary(stream, pos)
       IN  IF r.ok
           THEN /\ pc' = "payload"
                /\ dtree' = r.node
                /\ pos' = r.pos
                /\ result' = result
           ELSE /\ pc' = "done"
                /\ dtree' = dtree
                /\ pos' = r.pos
                /\ result' = out
    /\ UNCHANGED <<call, data, wgiven, weights, pending, heap, tree, output,
                   compressed, cdata, stream, out, err>>

\* decompress, line 149: tree = Node.from_binary(stream)
FromBinary ==
    /\ pc = "tree"
    /\ LET r == from_binary(stream, pos)
       IN  IF r.ok
           THEN /\ pc' = "payload"
                /\ err' = err
                /\ dtree' = r.node
                /\ pos' = r.pos
           ELSE /\ pc' = "raised"
                /\ err' = "ReadError"
                /\ dtree' = dtree
                /\ pos' = r.pos
    /\ UNCHANGED <<call, data, wgiven, weights, pending, heap, tree, output,
                   compressed, cdata, stream, out, result>>

\* decompress, lines 152-153: one iteration of the loop that read a symbol.
\* Under a Leaf root the loop is followed for MaxOut symbols.
ReadSymbol ==
    /\ pc = "payload"
    /\ dtree.leaf => Len(out) < MaxOut
    /\ LET r == read(dtree, stream, pos)
       IN  /\ r.ok
           /\ out' = Append(out, r.symbol)
           /\ pos' = r.pos
    /\ UNCHANGED <<call, pc, data, wgiven, weights, pending, heap, tree,
                   output, compressed, cdata, stream, dtree, result, err>>

\* decompress, lines 153-157: the read ran off the end, the ReadError is
\* caught and bytes(out) returned
DecompressReturn ==
    /\ pc = "payload"
    /\ ~read(dtree, stream, pos).ok
    /\ result' = out
    /\ pos' = Len(stream)
    /\ pc' = "done"
    /\ UNCHANGED <<call, data, wgiven, weights, pending, heap, tree, output,
                   compressed, cdata, stream, dtree, out, err>>

\* ---- the calls ----

InitCommon ==
    /\ pending = {}
    /\ heap = <<>>
    /\ tree = NoTree
    /\ output = <<>>
    /\ compressed = <<>>
    /\ stream = <<>>
    /\ pos = 0
    /\ dtree = NoTree
    /\ out = <<>>
    /\ result = <<>>
    /\ err = ""

\* compress(data) or compress(data, weights), its bytes then decompressed;
\* or decompress(cdata) of arbitrary bytes
Init ==
    /\ InitCommon
    /\ \/ /\ call = "compress"
          /\ pc = "from_data"
          /\ cdata = <<>>
          /\ \/ /\ wgiven = FALSE
                /\ weights = EmptyMap
                /\ data \in SeqsUpTo(DataSymbols, MaxLen)
             \/ /\ wgiven = TRUE
                /\ weights \in Mappings
                /\ data \in SeqsUpTo(DataSymbols, MaxWeightedLen)
       \/ /\ call = "decompress"
          /\ pc = "decompress"
          /\ cdata \in SeqsUpTo(Byte, MaxRawLen)
          /\ wgiven = FALSE
          /\ weights = EmptyMap
          /\ data = <<>>

Next ==
    \/ FromDataStart
    \/ Push
    \/ Merge
    \/ FromDataReturn
    \/ Compress
    \/ Transmit
    \/ SkipPadding
    \/ FromBinary
    \/ ReadSymbol
    \/ DecompressReturn

Spec == Init /\ [][Next]_vars

\* ---- what the claims speak of ----

\* compress returned its bytes
Returned ==
    /\ call = "compress"
    /\ pc \in {"compressed", "decompress", "tree", "payload", "done", "raised"}
    /\ err \notin {"IndexError", "KeyError"}

\* from_data returned its tree
Built == call = "compress" /\ tree # NoTree

\* decompress was handed all the bytes compress returned
Whole == Returned /\ pc # "compressed" /\ cdata = compressed

IsPrefix(a, b) == Len(a) <= Len(b) /\ SubSeq(b, 1, Len(a)) = a

Zeros(n) == [i \in 1..n |-> 0]

RECURSIVE Leaves(_)
\* the symbols at the leaves of a tree
Leaves(t) == IF t.leaf THEN {t.symbol} ELSE Leaves(t.left) \cup Leaves(t.right)

RECURSIVE Paths(_, _)
\* each leaf's path from the root, 1 for a left branch and 0 for a right one
Paths(t, path) ==
    IF t.leaf THEN [s \in {t.symbol} |-> path]
    ELSE update(Paths(t.left, path \o <<1>>), Paths(t.right, path \o <<0>>))

\* the smallest node of a set under (weight, symbol)
Least(S) == CHOOSE x \in S : \A y \in S : ~lt(y, x)

RECURSIVE Greedy(_)
\* the tree of the greedy merge over a set of nodes, with no heap and no order
Greedy(S) ==
    IF Cardinality(S) = 1 THEN CHOOSE x \in S : TRUE
    ELSE LET first == Least(S)
             second == Least(S \ {first})
         IN  Greedy((S \ {first, second})
                    \cup {Node(add_to_code(first, 1), add_to_code(second, 0))})

\* the tree that depends on the weights alone
TreeOf(w) == Greedy({LeafNode(s, w[s], <<>>) : s \in DOMAIN w})

\* C1: for every non-empty data, with weights omitted, decompress(compress(data))
\* returns data: the payload loop never holds more symbols than data has, no
\* ReadError leaves decompress, and what it returns is data.
RoundTrip ==
    (Whole /\ ~wgiven /\ data # <<>>) =>
        /\ pc # "raised"
        /\ Len(out) <= Len(data)
        /\ pc = "done" => result = data

\* The round trip of data with at least two distinct bytes.
RoundTripTwoSymbols ==
    (Whole /\ ~wgiven /\ Cardinality(DOMAIN weights) >= 2) =>
        /\ pc # "raised"
        /\ IsPrefix(out, data)
        /\ pc = "done" => result = data

\* C2: the tree from_data returns and the bytes compress returns depend on the
\* weights (and data) alone, not on the order the entries were pushed in: when
\* they are returned they are those of the greedy merge over the set of leaves.
Determinism ==
    /\ (Built /\ pc = "encode") => tree = TreeOf(weights)
    /\ (Returned /\ pc = "compressed") =>
         LET t == TreeOf(weights)
             bits == binary(t) \o encode(codes(t), data)
         IN  compressed = tobytes(padding(Len(bits)) \o bits)

\* C2's case: four symbols of equal weight built and compressed (24 orders).
DeterminismWitness ==
    /\ Returned
    /\ pc = "compressed"
    /\ Cardinality(DOMAIN weights) = 4
    /\ \A s \in DOMAIN weights : weights[s] = 1

\* C3: with at least two symbols, no symbol's code in the table of the built
\* tree is a prefix of (or equal to) the code of another symbol.
PrefixFree ==
    (Built /\ Cardinality(DOMAIN weights) >= 2) =>
        LET table == codes(tree)
        IN  \A a \in DOMAIN table : \A b \in DOMAIN table :
                a # b => ~IsPrefix(table[a], table[b])

\* C3's case: a built tree of four symbols whose codes differ in length.
PrefixFreeWitness ==
    /\ Built
    /\ Cardinality(DOMAIN weights) = 4
    /\ \E a \in DOMAIN codes(tree) : \E b \in DOMAIN codes(tree) :
           Len(codes(tree)[a]) < Len(codes(tree)[b])

\* C4: the bytes compress returns are, bit by bit, k-1 zeros, a one, the
\* serialized tree and the codes of the bytes of data in order, with n the
\* bits of tree and payload and k = 8 - (n mod 8) in 1..8; nothing follows
\* the payload; decompress's padding loop stops at the first bit of the tree;
\* b"122333" compresses to 0x498cca67d0.
WireFormat ==
    /\ (Returned /\ pc = "compressed") =>
         LET n == Len(output)
             k == 8 - (n % 8)
             bits == BitStream(compressed)
             table == codes(tree)
         IN  /\ k \in 1..8
             /\ (n % 8 = 0) => k = 8
             /\ Len(bits) = k + n
             /\ Len(compressed) * 8 = k + n
             /\ SubSeq(bits, 1, k) = Zeros(k - 1) \o <<1>>
             /\ SubSeq(bits, k + 1, k + Len(binary(tree))) = binary(tree)
             /\ n = Len(binary(tree)) + Len(encode(table, data))
             /\ SubSeq(bits, k + Len(binary(tree)) + 1, k + n)
                    = encode(table, data)
    /\ (Whole /\ pc = "tree") => pos = 8 - (Len(output) % 8)
    /\ (Returned /\ ~wgiven /\ data = <<49, 50, 50, 51, 51, 51>>) =>
           compressed = <<73, 140, 202, 103, 208>>

\* C4's case: tree and payload already fill whole bytes, a full byte of
\* padding is in front, and decompress has read it.
WireFormatWitness ==
    /\ Whole
    /\ pc = "tree"
    /\ Len(output) % 8 = 0
    /\ pos = 8

RECURSIVE SameShape(_, _)
\* two trees with the same structure and the same symbols at the leaves
SameShape(t, u) ==
    IF t.leaf \/ u.leaf
    THEN t.leaf /\ u.leaf /\ t.symbol = u.symbol
    ELSE SameShape(t.left, u.left) /\ SameShape(t.right, u.right)

\* C5: from_binary on a stream that starts with the serialized built tree,
\* whatever bits follow, reads exactly the bits of the tree and returns a tree
\* of the same shape with the same code table; so does decompress on the
\* bytes of compress, where the payload follows the tree.
SerializationRoundTrip ==
    /\ (Built /\ pc = "encode") =>
         \A more \in SeqsUpTo(Bit, MaxMore) :
             LET r == from_binary(binary(tree) \o more, 0)
             IN  /\ r.ok
                 /\ r.pos = Len(binary(tree))
                 /\ SameShape(r.node, tree)
                 /\ codes(r.node) = codes(tree)
    /\ (call = "compress" /\ pc \in {"payload", "done"}) =>
         /\ SameShape(dtree, tree)
         /\ codes(dtree) = codes(tree)
    /\ (call = "compress" /\ pc = "payload" /\ out = <<>>) =>
         pos = 8 - (Len(output) % 8) + Len(binary(tree))

\* C5's case: decompress has read a tree of three or more leaves and stands
\* at the first bit of a payload.
SerializationWitness ==
    /\ Whole
    /\ pc = "payload"
    /\ out = <<>>
    /\ Cardinality(Leaves(dtree)) >= 3
    /\ pos < Len(stream)

Range(f) == {f[i] : i \in DOMAIN f}

\* the weights and the codes of the tests' b"122333" example
SimpleWeights == (49 :> 1) @@ (50 :> 1) @@ (51 :> 4)
SimpleCodes == (49 :> <<1, 1>>) @@ (50 :> <<1, 0>>) @@ (51 :> <<0>>)

\* every leaf's code is its path from the root of the node it hangs in
CodesArePaths ==
    /\ pc = "push" => \A i \in DOMAIN heap : codes(heap[i]) = Paths(heap[i], <<>>)
    /\ Built => codes(tree) = Paths(tree, <<>>)
    /\ (Built /\ weights = SimpleWeights) => codes(tree) = SimpleCodes

\* one iteration of the merge loop: the two smallest nodes leave the heap and
\* a node comes in with the smaller one left under bit 1, the other right
\* under bit 0, the sum of their weights and the left child's symbol
MergeStep ==
    (pc = "push" /\ pending = {} /\ Len(heap) > 1) =>
        LET S == Range(heap)
            first == Least(S)
            second == Least(S \ {first})
        IN  \E n \in Range(heap') :
              /\ Range(heap') = (S \ {first, second}) \cup {n}
              /\ lt(first, second)
              /\ ~n.leaf
              /\ SameShape(n.left, first)
              /\ SameShape(n.right, second)
              /\ codes(n.left) = [s \in Leaves(first) |-> <<1>> \o codes(first)[s]]
              /\ codes(n.right) = [s \in Leaves(second) |-> <<0>> \o codes(second)[s]]
              /\ n.weight = first.weight + second.weight
              /\ n.symbol = first.symbol

\* C6: each iteration of from_data's loop merges the two smallest nodes as
\* MergeStep says, so every leaf's code is its root-to-leaf path (1 left,
\* 0 right), and the weights {'1': 1, '2': 1, '3': 4} give 11, 10 and 0.
TreeConstruction == []CodesArePaths /\ [][MergeStep]_vars

\* C6's case: the tree of the weights 1, 1, 4 is built.
TreeConstructionWitness == Built /\ weights = SimpleWeights

\* from_data has returned or raised
AfterFromData == call = "compress" /\ pc \notin {"from_data", "push"}

\* C7 as claimed: compress returns no bytes whenever data is empty, whatever
\* the weights argument, and whenever the weight mapping is empty.
EmptyInputRejected ==
    (call = "compress" /\ (data = <<>> \/ (pc # "from_data" /\ DOMAIN weights = {})))
        => ~Returned

\* C7 as amended: compress fails (IndexError, no bytes) exactly when the
\* weight mapping the tree is built from is empty, which is the case for empty
\* data when weights is omitted; with empty data and a non-empty weights
\* mapping it returns the padded serialized tree and no payload.
EmptyMappingRejected ==
    /\ AfterFromData => (DOMAIN weights = {} <=> (pc = "raised" /\ err = "IndexError"))
    /\ (AfterFromData /\ DOMAIN weights = {}) => compressed = <<>>
    /\ (AfterFromData /\ ~wgiven /\ data = <<>>) => DOMAIN weights = {}
    /\ (AfterFromData /\ pc # "encode" /\ data = <<>> /\ DOMAIN weights # {}) =>
         /\ Returned
         /\ output = binary(tree)
         /\ compressed = tobytes(padding(Len(output)) \o output)

\* C7's case: compress was called with an empty weights mapping and raised.
EmptyMappingWitness ==
    /\ call = "compress"
    /\ wgiven
    /\ weights = EmptyMap
    /\ pc = "raised"
    /\ err = "IndexError"

\* SkipPadding has opened the stream
Opened == pc \in {"tree", "payload", "done"} \/ (pc = "raised" /\ err = "ReadError")

NoOne(s) == \A i \in DOMAIN s : s[i] = 0

\* the bits of the padding: up to the first 1 bit
FirstOne(s) == CHOOSE i \in DOMAIN s : s[i] = 1 /\ \A j \in 1..(i - 1) : s[j] = 0

RECURSIVE TreeEnd(_, _, _)
\* the position after the preorder tree that starts at p with need subtrees
\* to come, or Len(s) + 1 when the bits run out before the tree is whole
TreeEnd(s, p, need) ==
    IF need = 0 THEN p
    ELSE IF p >= Len(s) THEN Len(s) + 1
    ELSE IF s[p + 1] = 0 THEN TreeEnd(s, p + 1, need + 1)
    ELSE IF p + 9 > Len(s) THEN Len(s) + 1
    ELSE TreeEnd(s, p + 9, need - 1)

\* the bits run out in the tree
TreeCut(s) == ~NoOne(s) /\ TreeEnd(s, FirstOne(s), 1) > Len(s)

RECURSIVE LeafPaths(_, _)
\* the pairs <<path, symbol>> of the leaves of a tree
LeafPaths(t, path) ==
    IF t.leaf THEN {<<path, t.symbol>>}
    ELSE LeafPaths(t.left, path \o <<1>>) \cup LeafPaths(t.right, path \o <<0>>)

RECURSIVE Decode(_, _)
\* the symbols whose codes are whole in bits, read code after code; what is
\* left at the end is no whole code
Decode(pairs, bits) ==
    IF \E pr \in pairs : IsPrefix(pr[1], bits)
    THEN LET pr == CHOOSE q \in pairs : IsPrefix(q[1], bits)
         IN  <<pr[2]>> \o Decode(pairs, SubSeq(bits, Len(pr[1]) + 1, Len(bits)))
    ELSE <<>>

\* the bits after the tree
Payload(s) == SubSeq(s, TreeEnd(s, FirstOne(s), 1) + 1, Len(s))

\* C8: bits that run out in the padding or in the tree leave decompress as a
\* ReadError with nothing returned, and a ReadError leaves it in no other
\* case; under an Internal root, bits that run out in the payload end the
\* loop and decompress returns the symbols whose codes were read whole.
ExhaustionByPhase ==
    Opened =>
        /\ NoOne(stream) => (pc = "raised" /\ result = <<>> /\ out = <<>>)
        /\ (TreeCut(stream) /\ pc # "tree") =>
               (pc = "raised" /\ result = <<>> /\ out = <<>>)
        /\ pc = "raised" => (NoOne(stream) \/ TreeCut(stream))
        /\ (pc = "done" /\ ~dtree.leaf) =>
               /\ err = ""
               /\ result = Decode(LeafPaths(dtree, <<>>), Payload(stream))

\* C8's case: decompress returned symbols from bytes cut short inside a code.
ExhaustionWitness ==
    /\ call = "compress"
    /\ pc = "done"
    /\ ~dtree.leaf
    /\ result # <<>>
    /\ Len(encode(codes(dtree), result)) < Len(Payload(stream))

\* from_data works on a mapping of one symbol
Single == call = "compress" /\ pc # "from_data" /\ Cardinality(DOMAIN weights) = 1

SingleSymbolInv ==
    /\ (Single /\ pc = "push" /\ pending = {}) =>
         (Len(heap) = 1 /\ heap[1].leaf /\ heap[1].code = <<>>)
    /\ (Single /\ Built) =>
         (tree.leaf /\ tree.code = <<>> /\ tree.symbol \in DOMAIN weights)
    /\ (Single /\ Returned) =>
         (Len(output) = 9 /\ output = binary(tree) /\ Len(compressed) = 2)
    /\ (Single /\ Whole) => pc \in {"decompress", "tree", "payload"}
    /\ (Single /\ Whole /\ pc = "payload") =>
         /\ dtree.leaf
         /\ pos = Len(stream)
         /\ read(dtree, stream, pos).ok

\* an iteration of the payload loop under a Leaf root reads no bit
LeafLoopStep ==
    (pc = "payload" /\ dtree.leaf) =>
        (pc' = "payload" /\ pos' = pos /\ out' = Append(out, dtree.symbol))

\* C9: with one distinct symbol from_data merges nothing and returns a Leaf
\* with an empty code, compress writes no payload bit, and decompress of its
\* bytes stays in the payload loop: every iteration adds a symbol and reads
\* no bit, so the ReadError that ends the loop never comes.
SingleSymbol == []SingleSymbolInv /\ [][LeafLoopStep]_vars

\* C9's case: decompress holds more symbols than data had and is still in
\* the loop.
SingleSymbolWitness ==
    /\ Single
    /\ Whole
    /\ pc = "payload"
    /\ Len(data) >= 2
    /\ Len(out) > Len(data)

RECURSIVE Internal(_)
\* the number of internal nodes of a tree
Internal(t) == IF t.leaf THEN 0 ELSE 1 + Internal(t.left) + Internal(t.right)

RECURSIVE LeafWeight(_)
\* the sum of the weights of the leaves of a tree
LeafWeight(t) ==
    IF t.leaf THEN t.weight ELSE LeafWeight(t.left) + LeafWeight(t.right)

RECURSIVE WellFormed(_)
\* leaves carry their symbol's weight, internal nodes two children with
\* disjoint leaves and the sum of the weights of their leaves
WellFormed(t) ==
    IF t.leaf THEN t.symbol \in DOMAIN weights /\ t.weight = weights[t.symbol]
    ELSE /\ DOMAIN t = {"leaf", "symbol", "weight", "left", "right"}
         /\ t.weight = LeafWeight(t)
         /\ Leaves(t.left) \cap Leaves(t.right) = {}
         /\ WellFormed(t.left)
         /\ WellFormed(t.right)

RECURSIVE InternalSum(_)
InternalSum(h) == IF h = <<>> THEN 0 ELSE Internal(h[1]) + InternalSum(Tail(h))

MergeLoopInv ==
    /\ (call = "compress" /\ pc = "push") =>
         /\ \A i \in DOMAIN heap : WellFormed(heap[i])
         /\ \A i \in DOMAIN heap : \A j \in DOMAIN heap :
                i # j =>
                  /\ Leaves(heap[i]) \cap Leaves(heap[j]) = {}
                  /\ heap[i].symbol # heap[j].symbol
                  /\ lt(heap[i], heap[j]) \/ lt(heap[j], heap[i])
         /\ UNION {Leaves(heap[i]) : i \in DOMAIN heap} = DOMAIN weights \ pending
         /\ pending = {} =>
                Len(heap) + InternalSum(heap) = Cardinality(DOMAIN weights)
    /\ Built =>
         /\ WellFormed(tree)
         /\ Leaves(tree) = DOMAIN weights
         /\ Internal(tree) = Cardinality(DOMAIN weights) - 1

\* an iteration of the merge loop takes one node off the heap
ShrinkStep ==
    (pc = "push" /\ pending = {} /\ Len(heap) > 1) => Len(heap') = Len(heap) - 1

\* C10: throughout from_data's loop the leaves of the heap's nodes partition
\* the keys, the nodes differ in their representative symbols (so __lt__
\* orders any two), internal nodes have two children and the sum of their
\* leaves' weights; each iteration shrinks the heap by one, so n keys end
\* after n-1 merges in one root over the n keys.
MergeLoopInvariant == []MergeLoopInv /\ [][ShrinkStep]_vars

\* C10's case: two merges have left two internal nodes on the heap.
MergeLoopWitness ==
    /\ pc = "push"
    /\ pending = {}
    /\ Len(heap) = 2
    /\ ~heap[1].leaf
    /\ ~heap[2].leaf

=============================================================================
